---- MODULE Spec2Model ----
(***************************************************************************)
(* Model of the create-user form of src/src/App.tsx: the zod schema        *)
(* createUserFormSchema (validation, transforms, cross-field refinement),  *)
(* the capitalize helper, the react-hook-form field array behind the       *)
(* "techs" rows (append / remove) and the submit handler createUser.       *)
(*                                                                         *)
(* A JavaScript string is a sequence of one-character strings, so that     *)
(* trim, split, toLowerCase, endsWith and Number are computed character by *)
(* character.  A JavaScript number is a record                             *)
(*     [nan, neg, int, frac]                                               *)
(* (not-a-number flag, sign, integer part, fractional digits without       *)
(* trailing zeros), which is exact for the decimal literals a number input *)
(* can hold.                                                               *)
(***************************************************************************)
EXTENDS Integers, Sequences, FiniteSets, TLC

VARIABLES formValues, fields, idCount, errors, output, isSubmitting, lastSubmit, lastEvent

vars == <<formValues, fields, idCount, errors, output, isSubmitting, lastSubmit, lastEvent>>

(***************************************************************************)
(* Bounds of the model.                                                    *)
(***************************************************************************)
\* longest techs array of a raw record drawn for a validation pass
MaxTechs == 2
\* number of append clicks in one form session
MaxAppends == 2

(***************************************************************************)
(* Program constants.                                                      *)
(***************************************************************************)
fileSizeInMb == 10
fileSize == fileSizeInMb * 1024 * 1024

gmailSuffix == <<"@", "g", "m", "a", "i", "l", ".", "c", "o", "m">>

minPasswordLength == 8
minTechs == 2
minKnowledge == 1
maxKnowledge == 100

MsgAvatarRequired == "The avatar image is required."
MsgAvatarTooBig == "The file must be a maximum of 10Mb"
MsgNameRequired == "Name is required"
MsgEmailRequired == "E-mail is required"
MsgEmailInvalid == "Please insert a valid e-mail"
MsgEmailPolicy == "Must be a gmail account"
MsgPasswordShort == "The password need to be at least 8 characters long"
MsgTechsTooFew == "Add at least 2 techs"
MsgTitleRequired == "Title is required"
MsgKnowledgeNaN == "Expected number, received nan"
MsgKnowledgeMin == "Number must be greater than or equal to 1"
MsgKnowledgeMax == "Number must be less than or equal to 100"
MsgMismatch == "Passwords don't match"

(***************************************************************************)
(* Characters and strings.                                                 *)
(***************************************************************************)
UpperLetters == <<"A", "B", "C", "D", "E", "F", "G", "H", "I", "J", "K", "L", "M",
                  "N", "O", "P", "Q", "R", "S", "T", "U", "V", "W", "X", "Y", "Z">>
LowerLetters == <<"a", "b", "c", "d", "e", "f", "g", "h", "i", "j", "k", "l", "m",
                  "n", "o", "p", "q", "r", "s", "t", "u", "v", "w", "x", "y", "z">>
DigitChars == <<"0", "1", "2", "3", "4", "5", "6", "7", "8", "9">>

UpperSet == {UpperLetters[i] : i \in 1..Len(UpperLetters)}
LowerSet == {LowerLetters[i] : i \in 1..Len(LowerLetters)}
DigitSet == {DigitChars[i] : i \in 1..Len(DigitChars)}

IsUpper(c) == c \in UpperSet
IsLower(c) == c \in LowerSet
IsAlpha(c) == c \in UpperSet \cup LowerSet
IsDigit(c) == c \in DigitSet
IsAlnum(c) == c \in UpperSet \cup LowerSet \cup DigitSet
IsSpace(c) == c = " "

\* the lower-case and upper-case forms of the letters
LowerOf == [c \in UpperSet |-> LowerLetters[CHOOSE i \in 1..Len(UpperLetters) : UpperLetters[i] = c]]
UpperOf == [c \in LowerSet |-> UpperLetters[CHOOSE i \in 1..Len(LowerLetters) : LowerLetters[i] = c]]

toLowerChar(c) == IF c \in UpperSet THEN LowerOf[c] ELSE c

toUpperChar(c) == IF c \in LowerSet THEN UpperOf[c] ELSE c

\* String.prototype.toLowerCase
toLowerCase(s) == [i \in 1..Len(s) |-> toLowerChar(s[i])]

\* String.prototype.endsWith
endsWith(s, suffix) ==
    /\ Len(s) >= Len(suffix)
    /\ SubSeq(s, Len(s) - Len(suffix) + 1, Len(s)) = suffix

RECURSIVE trimStart(_)
trimStart(s) == IF s # <<>> /\ IsSpace(Head(s)) THEN trimStart(Tail(s)) ELSE s

RECURSIVE trimEnd(_)
trimEnd(s) ==
    IF s # <<>> /\ IsSpace(s[Len(s)]) THEN trimEnd(SubSeq(s, 1, Len(s) - 1)) ELSE s

\* String.prototype.trim
trim(s) == trimEnd(trimStart(s))

\* String.prototype.split with a one-character separator: "" splits to [""],
\* and two adjacent separators enclose an empty token.
RECURSIVE split(_, _)
split(s, sep) ==
    IF \E i \in 1..Len(s) : s[i] = sep
    THEN LET i == CHOOSE k \in 1..Len(s) :
                      s[k] = sep /\ \A j \in 1..(k - 1) : s[j] # sep
         IN  <<SubSeq(s, 1, i - 1)>> \o split(SubSeq(s, i + 1, Len(s)), sep)
    ELSE <<s>>

\* Array.prototype.join
RECURSIVE join(_, _)
join(parts, sep) ==
    IF parts = <<>> THEN <<>>
    ELSE IF Len(parts) = 1 THEN parts[1]
    ELSE parts[1] \o <<sep>> \o join(Tail(parts), sep)

(***************************************************************************)
(* capitalize: part[0] of an empty token is undefined, and calling         *)
(* toLocaleUpperCase on it raises a TypeError.                             *)
(***************************************************************************)
capitalizePart(part) == <<toUpperChar(part[1])>> \o SubSeq(part, 2, Len(part))

\* .map(part => ...).join(" ") over the tokens
capitalizeParts(parts) ==
    IF \E i \in 1..Len(parts) : parts[i] = <<>>
    THEN [threw |-> TRUE, value |-> <<>>]
    ELSE [threw |-> FALSE,
          value |-> join([i \in 1..Len(parts) |-> capitalizePart(parts[i])], " ")]

capitalize(word) == capitalizeParts(split(trim(word), " "))

(***************************************************************************)
(* Numbers and z.coerce.number(): Number(input).                           *)
(***************************************************************************)
NaN == [nan |-> TRUE, neg |-> FALSE, int |-> 0, frac |-> <<>>]
Num(neg, int, frac) == [nan |-> FALSE, neg |-> neg, int |-> int, frac |-> frac]

DigitValues == [c \in DigitSet |-> (CHOOSE i \in 1..Len(DigitChars) : DigitChars[i] = c) - 1]
DigitVal(c) == DigitValues[c]

RECURSIVE IntVal(_)
IntVal(ds) ==
    IF ds = <<>> THEN 0
    ELSE IntVal(SubSeq(ds, 1, Len(ds) - 1)) * 10 + DigitVal(ds[Len(ds)])

RECURSIVE FracVal(_)
FracVal(ds) ==
    IF ds = <<>> THEN <<>>
    ELSE IF ds[Len(ds)] = "0" THEN FracVal(SubSeq(ds, 1, Len(ds) - 1))
    ELSE [i \in 1..Len(ds) |-> DigitVal(ds[i])]

\* an unsigned decimal literal: digits, optionally one "." and digits, with at
\* least one digit in all
UnsignedParts(ps) ==
    IF /\ Len(ps) <= 2
       /\ \A k \in 1..Len(ps) : \A j \in 1..Len(ps[k]) : IsDigit(ps[k][j])
       /\ \E k \in 1..Len(ps) : ps[k] # <<>>
    THEN Num(FALSE, IntVal(ps[1]), IF Len(ps) = 2 THEN FracVal(ps[2]) ELSE <<>>)
    ELSE NaN

UnsignedVal(t) == UnsignedParts(split(t, "."))

\* Number(string): surrounding white space is ignored, "" is 0, an optional
\* sign precedes the literal, anything else is NaN.  (Exponents, radix
\* prefixes and Infinity are not among the characters the model draws.)
Signed(neg, u) == IF u.nan THEN NaN ELSE Num(neg, u.int, u.frac)

TrimmedToNumber(t) ==
    IF t = <<>> THEN Num(FALSE, 0, <<>>)
    ELSE IF Head(t) \in {"-", "+"} THEN Signed(Head(t) = "-", UnsignedVal(Tail(t)))
    ELSE UnsignedVal(t)

StringToNumber(s) == TrimmedToNumber(trim(s))

\* a raw knowledge value is a string (typed into the number input) or a
\* number (the default given to append)
StrValue(s) == [type |-> "string", str |-> s, num |-> NaN]
NumValue(n) == [type |-> "number", str |-> <<>>, num |-> n]

coerceNumber(v) == IF v.type = "number" THEN v.num ELSE StringToNumber(v.str)

\* n < bound and n > bound for an integer bound >= 0
NumLess(n, bound) ==
    IF n.neg THEN (n.int # 0) \/ (n.frac # <<>>) \/ (bound > 0)
    ELSE n.int < bound
NumGreater(n, bound) == ~n.neg /\ (n.int > bound \/ (n.int = bound /\ n.frac # <<>>))
IsInteger(n) == ~n.nan /\ n.frac = <<>>

(***************************************************************************)
(* createUserFormSchema.  Every schema returns [status, value, issues]:    *)
(* zod's parse status ("valid", "dirty" once an issue was added, "aborted" *)
(* when the value could not be produced), the parsed value, and the issues *)
(* added to the parse context, in the order in which they are added.       *)
(***************************************************************************)
Issue(path, code, message) == [path |-> path, code |-> code, message |-> message]

Parsed(status, value, issues) == [status |-> status, value |-> value, issues |-> issues]

StatusOf(issues) == IF issues = <<>> THEN "valid" ELSE "dirty"

\* a value with the issues its checks added
Checked(value, issues) == Parsed(StatusOf(issues), value, issues)

\* FileList.item(0): the first file, or null
NoFile == [null |-> TRUE, size |-> 0]
File(size) == [null |-> FALSE, size |-> size]
item0(list) == IF list = <<>> THEN NoFile ELSE list[1]

\* avatar: instanceof(FileList), transform to item(0), superRefine
avatarIssues(file) ==
    IF file.null
    THEN <<Issue(<<"avatar">>, "custom", MsgAvatarRequired)>>
    ELSE IF file.size > fileSize
    THEN <<Issue(<<"avatar">>, "too_big", MsgAvatarTooBig)>>
    ELSE <<>>

avatarSchema(list) == Checked(item0(list), avatarIssues(item0(list)))

\* name: string().nonempty().transform(capitalize).  The transform runs only
\* on a value whose checks all passed; what it raises is not caught.
Transformed(c) ==
    [status |-> "valid", value |-> c.value, issues |-> <<>>, ran |-> TRUE, threw |-> c.threw]

nameSchema(name) ==
    IF Len(name) < 1
    THEN [status |-> "dirty", value |-> name,
          issues |-> <<Issue(<<"name">>, "too_small", MsgNameRequired)>>,
          ran |-> FALSE, threw |-> FALSE]
    ELSE Transformed(capitalize(name))

\* zod's e-mail pattern, which is matched ignoring case:
\* ^([A-Z0-9_+-]+\.?)*[A-Z0-9_+-]@([A-Z0-9][A-Z0-9\-]*\.)+[A-Z]{2,}$
IsLocalChar(c) == IsAlnum(c) \/ c \in {"_", "+", "-"}

LocalPartOk(l) ==
    /\ l # <<>>
    /\ \A i \in 1..Len(l) : IsLocalChar(l[i]) \/ l[i] = "."
    /\ l[1] # "."
    /\ l[Len(l)] # "."
    /\ \A i \in 1..(Len(l) - 1) : ~(l[i] = "." /\ l[i + 1] = ".")

LabelOk(label) ==
    /\ label # <<>>
    /\ \A j \in 1..Len(label) : IsAlnum(label[j]) \/ (j > 1 /\ label[j] = "-")

TopLevelOk(label) == Len(label) >= 2 /\ \A j \in 1..Len(label) : IsAlpha(label[j])

LabelsOk(labels) ==
    /\ Len(labels) >= 2
    /\ \A k \in 1..Len(labels) :
          IF k < Len(labels) THEN LabelOk(labels[k]) ELSE TopLevelOk(labels[k])

DomainOk(d) == LabelsOk(split(d, "."))

AtPartsOk(ps) == Len(ps) = 2 /\ LocalPartOk(ps[1]) /\ DomainOk(ps[2])

isEmail(s) == AtPartsOk(split(s, "@"))

\* fault: the suffix is tested on the value as typed
emailRefineInputAsTyped(email) == email

\* the value the .refine of email tests
emailRefineInput(email) == toLowerCase(email)

\* email: string().nonempty().email().toLowerCase().refine(endsWith).  The
\* string checks all run, in order; the refinement runs on their output
\* unless the status is aborted, which a string check never makes it.
emailIssues(email) ==
    (IF Len(email) < 1
     THEN <<Issue(<<"email">>, "too_small", MsgEmailRequired)>> ELSE <<>>)
    \o (IF ~isEmail(email)
        THEN <<Issue(<<"email">>, "invalid_string", MsgEmailInvalid)>> ELSE <<>>)
    \o (IF ~endsWith(emailRefineInput(email), gmailSuffix)
        THEN <<Issue(<<"email">>, "custom", MsgEmailPolicy)>> ELSE <<>>)

emailSchema(email) == Checked(toLowerCase(email), emailIssues(email))

\* password and confirmPassword: string().min(8)
passwordSchema(value, key) ==
    Checked(value, IF Len(value) < minPasswordLength
                   THEN <<Issue(<<key>>, "too_small", MsgPasswordShort)>> ELSE <<>>)

\* title: string().nonempty()
titleSchema(title, i) ==
    Checked(title, IF Len(title) < 1
                   THEN <<Issue(<<"techs", i, "title">>, "too_small", MsgTitleRequired)>>
                   ELSE <<>>)

\* knowledge: coerce.number().min(1).max(100).  NaN is no number: the parse
\* is aborted with invalid_type before the range checks.
\* fault: .max(100) left out
rangeIssuesMinOnly(n, i) ==
    IF NumLess(n, minKnowledge)
    THEN <<Issue(<<"techs", i, "knowledge">>, "too_small", MsgKnowledgeMin)>> ELSE <<>>

rangeIssues(n, i) ==
    (IF NumLess(n, minKnowledge)
     THEN <<Issue(<<"techs", i, "knowledge">>, "too_small", MsgKnowledgeMin)>> ELSE <<>>)
    \o (IF NumGreater(n, maxKnowledge)
        THEN <<Issue(<<"techs", i, "knowledge">>, "too_big", MsgKnowledgeMax)>> ELSE <<>>)

numberSchema(n, i) ==
    IF n.nan
    THEN Parsed("aborted", n,
                <<Issue(<<"techs", i, "knowledge">>, "invalid_type", MsgKnowledgeNaN)>>)
    ELSE Checked(n, rangeIssues(n, i))

knowledgeSchema(raw, i) == numberSchema(coerceNumber(raw), i)

\* ParseStatus.mergeObjectSync / mergeArray
MergeStatus(statuses) ==
    IF "aborted" \in statuses THEN "aborted"
    ELSE IF "dirty" \in statuses THEN "dirty"
    ELSE "valid"

\* one element of techs: object({title, knowledge}); unknown keys are
\* stripped, the value has exactly the two keys of the shape.  i is the
\* element's index in the array, from 0.
mergeTech(t, k) ==
    Parsed(MergeStatus({t.status, k.status}),
           [title |-> t.value, knowledge |-> k.value],
           t.issues \o k.issues)

techSchema(tech, i) ==
    mergeTech(titleSchema(tech.title, i), knowledgeSchema(tech.knowledge, i))

RECURSIVE Concat(_)
Concat(seqs) == IF seqs = <<>> THEN <<>> ELSE Head(seqs) \o Concat(Tail(seqs))

\* techs: array(techSchema).min(2).  The length check adds its issue and the
\* elements are parsed all the same.
lengthIssues(techs) ==
    IF Len(techs) < minTechs
    THEN <<Issue(<<"techs">>, "too_small", MsgTechsTooFew)>> ELSE <<>>

mergeArray(tooFew, elems) ==
    Parsed(MergeStatus({StatusOf(tooFew)} \cup {elems[i].status : i \in 1..Len(elems)}),
           [i \in 1..Len(elems) |-> elems[i].value],
           tooFew \o Concat([i \in 1..Len(elems) |-> elems[i].issues]))

techsSchema(techs) ==
    mergeArray(lengthIssues(techs), [i \in 1..Len(techs) |-> techSchema(techs[i], i - 1)])

\* fault: the refinement waits for an object without any issue
passwordsRefinementOnValid(status, data) ==
    IF status = "valid" /\ data.password # data.confirmPassword
    THEN <<Issue(<<"confirmPassword">>, "custom", MsgMismatch)>>
    ELSE <<>>

\* the object-level .refine: runs on the parsed object unless its status is
\* aborted, whatever issues its fields already have
passwordsRefinement(status, data) ==
    IF status # "aborted" /\ data.password # data.confirmPassword
    THEN <<Issue(<<"confirmPassword">>, "custom", MsgMismatch)>>
    ELSE <<>>

\* createUserFormSchema.parse(raw), as zodResolver calls it: the result is
\* success with the parsed data exactly when no issue was added; an exception
\* raised by a transform leaves the parse without a result.  data is <<>>
\* when there is none and <<record>> when there is.
objectData(a, n, e, p, c, t) ==
    [avatar |-> a.value, name |-> n.value, email |-> e.value,
     password |-> p.value, confirmPassword |-> c.value, techs |-> t.value]

objectIssues(a, n, e, p, c, t) ==
    a.issues \o n.issues \o e.issues \o p.issues \o c.issues \o t.issues

objectStatus(a, n, e, p, c, t) ==
    MergeStatus({a.status, n.status, e.status, p.status, c.status, t.status})

parseResult(threw, ran, data, issues) ==
    IF threw
    THEN [threw |-> TRUE, success |-> FALSE, issues |-> <<>>, data |-> <<>>,
          capitalizeRan |-> ran]
    ELSE [threw |-> FALSE, success |-> issues = <<>>, issues |-> issues,
          data |-> IF issues = <<>> THEN <<data>> ELSE <<>>,
          capitalizeRan |-> ran]

refined(status, data, issues, n) ==
    parseResult(n.threw, n.ran, data, issues \o passwordsRefinement(status, data))

parseFields(a, n, e, p, c, t) ==
    refined(objectStatus(a, n, e, p, c, t), objectData(a, n, e, p, c, t),
            objectIssues(a, n, e, p, c, t), n)

validate(raw) ==
    parseFields(avatarSchema(raw.avatar), nameSchema(raw.name), emailSchema(raw.email),
                passwordSchema(raw.password, "password"),
                passwordSchema(raw.confirmPassword, "confirmPassword"),
                techsSchema(raw.techs))

(***************************************************************************)
(* The field array (useFieldArray) and the form session.                   *)
(*                                                                         *)
(* formValues   the live values of the form, the raw record of the next    *)
(*              submission                                                 *)
(* fields       the rendered techs rows, in order: the row's key (id) and  *)
(*              the values its two inputs show                             *)
(* idCount      how many ids generateId has handed out; the next is fresh  *)
(* errors       formState.errors: the first issue of each path             *)
(* output       the React state output: <<>> for "", else <<json>>         *)
(* isSubmitting formState.isSubmitting, which disables the Save button     *)
(* lastSubmit   what the last handleSubmit did: its outcome, the issues of *)
(*              the validation pass, whether capitalize ran, and the data  *)
(*              handed to createUser                                       *)
(* lastEvent    the last event handled, its position argument, and the     *)
(*              event before it                                            *)
(***************************************************************************)
\* fault: an index past the end is clamped to the last entry
removeAtClamped(data, index) ==
    LET len == Len(data)
        start == IF index < 0
                 THEN (IF len + index > 0 THEN len + index ELSE 0)
                 ELSE (IF index < len THEN index ELSE len - 1)
    IN  IF len > 0
        THEN SubSeq(data, 1, start) \o SubSeq(data, start + 2, len)
        ELSE data

\* Array.prototype.splice(index, 1) on a copy, as react-hook-form's remove
\* does: a negative index counts from the end, an index past the end removes
\* nothing.
removeAt(data, index) ==
    LET len == Len(data)
        start == IF index < 0
                 THEN (IF len + index > 0 THEN len + index ELSE 0)
                 ELSE (IF index < len THEN index ELSE len)
    IN  IF start < len
        THEN SubSeq(data, 1, start) \o SubSeq(data, start + 2, len)
        ELSE data

\* fault: the value goes before the first entry
appendAtFront(data, value) == <<value>> \o data

\* react-hook-form's append: the value goes after the last entry
appendAt(data, value) == data \o <<value>>

\* the entry addNewTech appends
newTech == [title |-> <<>>, knowledge |-> NumValue(Num(FALSE, 0, <<>>))]

Row(id, tech) == [id |-> id, title |-> tech.title, knowledge |-> tech.knowledge]

\* zodResolver keeps the first issue of each path
RECURSIVE toFieldErrors(_, _)
toFieldErrors(issues, seen) ==
    IF issues = <<>> THEN <<>>
    ELSE IF Head(issues).path \in seen THEN toFieldErrors(Tail(issues), seen)
    ELSE <<Head(issues)>> \o toFieldErrors(Tail(issues), seen \cup {Head(issues).path})

\* JSON.stringify(data, null, 2): a File has no enumerable property of its
\* own and prints as {}
stringify(data) == <<[data EXCEPT !.avatar = "{}"]>>
NoSubmit == [outcome |-> "none", issues |-> <<>>, capitalizeRan |-> FALSE, data |-> <<>>]

\* an event, its position argument, and the event handled before it
Event(op, pos) == [op |-> op, pos |-> pos, prev |-> lastEvent.op]

NoEvent == [op |-> "init", pos |-> 0, prev |-> "init"]

\* fault: the new value is put first among the values, the new row last
addNewTechValueFirst ==
    /\ idCount < MaxAppends
    /\ idCount' = idCount + 1
    /\ fields' = appendAt(fields, Row(idCount + 1, newTech))
    /\ formValues' = [formValues EXCEPT !.techs = <<newTech>> \o @]
    /\ lastEvent' = Event("append", Len(fields))
    /\ UNCHANGED <<errors, output, isSubmitting, lastSubmit>>

\* addNewTech: append({title: "", knowledge: 0})
addNewTech ==
    /\ idCount < MaxAppends
    /\ idCount' = idCount + 1
    /\ fields' = appendAt(fields, Row(idCount + 1, newTech))
    /\ formValues' = [formValues EXCEPT !.techs = appendAt(@, newTech)]
    /\ lastEvent' = Event("append", Len(fields))
    /\ UNCHANGED <<errors, output, isSubmitting, lastSubmit>>

\* remove(position): the rows and the values lose the same position
remove(position) ==
    /\ fields' = removeAt(fields, position)
    /\ formValues' = [formValues EXCEPT !.techs = removeAt(@, position)]
    /\ lastEvent' = Event("remove", position)
    /\ UNCHANGED <<idCount, errors, output, isSubmitting, lastSubmit>>

\* typing into the title input of row i (registered as techs.i.title)
EditTitle(i, title) ==
    /\ i \in 1..Len(fields)
    /\ fields' = [fields EXCEPT ![i].title = title]
    /\ formValues' = [formValues EXCEPT !.techs[i].title = title]
    /\ lastEvent' = Event("editTitle", i - 1)
    /\ UNCHANGED <<idCount, errors, output, isSubmitting, lastSubmit>>

\* typing into the knowledge input of row i (registered as techs.i.knowledge)
EditKnowledge(i, knowledge) ==
    /\ i \in 1..Len(fields)
    /\ fields' = [fields EXCEPT ![i].knowledge = knowledge]
    /\ formValues' = [formValues EXCEPT !.techs[i].knowledge = knowledge]
    /\ lastEvent' = Event("editKnowledge", i - 1)
    /\ UNCHANGED <<idCount, errors, output, isSubmitting, lastSubmit>>

\* createUser(data): setOutput(JSON.stringify(data, null, 2))
createUser(data) == output' = stringify(data)

\* handleSubmit(createUser): one validation pass over the live values.  A
\* pass that raises rejects the handler's promise after isSubmitting was set:
\* nothing else is updated.  Otherwise the errors are replaced, and createUser
\* is called when there are none.
outcomeOf(r) == IF r.threw THEN "threw" ELSE IF r.success THEN "valid" ELSE "invalid"

submitted(r) ==
    [outcome |-> outcomeOf(r), issues |-> r.issues, capitalizeRan |-> r.capitalizeRan,
     data |-> r.data]

\* fault: a pass without issues leaves the errors of the pass before
onSubmitKeepErrors(r) ==
    /\ \/ /\ r.threw
          /\ isSubmitting' = TRUE
          /\ UNCHANGED <<errors, output>>
       \/ /\ ~r.threw /\ r.success
          /\ createUser(r.data[1])
          /\ UNCHANGED <<errors, isSubmitting>>
       \/ /\ ~r.threw /\ ~r.success
          /\ errors' = toFieldErrors(r.issues, {})
          /\ UNCHANGED <<output, isSubmitting>>
    /\ lastSubmit' = submitted(r)

onSubmit(r) ==
    /\ \/ /\ r.threw
          /\ isSubmitting' = TRUE
          /\ UNCHANGED <<errors, output>>
       \/ /\ ~r.threw /\ r.success
          /\ errors' = <<>>
          /\ createUser(r.data[1])
          /\ UNCHANGED isSubmitting
       \/ /\ ~r.threw /\ ~r.success
          /\ errors' = toFieldErrors(r.issues, {})
          /\ UNCHANGED <<output, isSubmitting>>
    /\ lastSubmit' = submitted(r)

Submit ==
    /\ ~isSubmitting
    /\ onSubmit(validate(formValues))
    /\ lastEvent' = Event("submit", 0)
    /\ UNCHANGED <<formValues, fields, idCount>>

(***************************************************************************)
(* The values the model draws.                                             *)
(***************************************************************************)
\* file lists: none, one file of the maximal size, two files of which the
\* first is a byte larger than that
Avatars ==
    { <<>>, <<File(fileSize)>>, <<File(fileSize + 1), File(1)>> }

\* "", " ", " ana s ", "a  b"
Names ==
    { <<>>, <<" ">>, <<" ", "a", "n", "a", " ", "s", " ">>, <<"a", " ", " ", "b">> }

\* "", "ab", "U@GMAIL.com", "U@x.io"
Emails ==
    { <<>>, <<"a", "b">>,
      <<"U", "@", "G", "M", "A", "I", "L", ".", "c", "o", "m">>,
      <<"U", "@", "x", ".", "i", "o">> }

\* "abc", "12345678"
Passwords ==
    { <<"a", "b", "c">>, <<"1", "2", "3", "4", "5", "6", "7", "8">> }

\* "abc", "12345678", "87654321"
ConfirmPasswords ==
    Passwords \cup { <<"8", "7", "6", "5", "4", "3", "2", "1">> }

\* techs entries: {"Go","50"}, {"Go","1.5"}, {"","50"}, {"Go",0} (0 is the
\* number addNewTech gives), {"Go","150"}, {"","abc"}
Tech(title, knowledge) == [title |-> title, knowledge |-> knowledge]

Techs ==
    { Tech(<<"G", "o">>, StrValue(<<"5", "0">>)),
      Tech(<<"G", "o">>, StrValue(<<"1", ".", "5">>)),
      Tech(<<>>, StrValue(<<"5", "0">>)),
      Tech(<<"G", "o">>, NumValue(Num(FALSE, 0, <<>>))),
      Tech(<<"G", "o">>, StrValue(<<"1", "5", "0">>)),
      Tech(<<>>, StrValue(<<"a", "b", "c">>)) }

TechsUpTo(n) == UNION { [1..k -> Techs] : k \in 0..n }

RawRecords ==
    [avatar : Avatars, name : Names, email : Emails, password : Passwords,
     confirmPassword : ConfirmPasswords, techs : TechsUpTo(MaxTechs)]

\* the rows of a techs array whose entries were appended in order
RowsOf(techs) == [i \in 1..Len(techs) |-> Row(i, techs[i])]

\* the scalar inputs of a session: all empty, as the form starts; filled in
\* with values that pass; the same with the name "a  b"
FilledIn(name) ==
    [avatar |-> <<File(fileSize)>>, name |-> name,
     email |-> <<"u">> \o gmailSuffix,
     password |-> <<"1", "2", "3", "4", "5", "6", "7", "8">>,
     confirmPassword |-> <<"1", "2", "3", "4", "5", "6", "7", "8">>]

SessionScalars ==
    { [avatar |-> <<>>, name |-> <<>>, email |-> <<>>, password |-> <<>>,
       confirmPassword |-> <<>>],
      FilledIn(<<"a", "n", "a">>),
      FilledIn(<<"a", " ", " ", "b">>) }

\* what a session types into a row
SessionTitles == { <<>>, <<"G", "o">> }
SessionKnowledges == { StrValue(<<"5", "0">>) }

\* the positions remove is called with: the index of a rendered row, a stale
\* index, and a negative one
Positions == (-1)..MaxAppends

(***************************************************************************)
(* The form session: the form starts with no techs row, no error and no    *)
(* output.                                                                 *)
(***************************************************************************)
Init ==
    /\ \E sc \in SessionScalars :
          formValues = [avatar |-> sc.avatar, name |-> sc.name, email |-> sc.email,
                        password |-> sc.password,
                        confirmPassword |-> sc.confirmPassword, techs |-> <<>>]
    /\ fields = <<>>
    /\ idCount = 0
    /\ errors = <<>>
    /\ output = <<>>
    /\ isSubmitting = FALSE
    /\ lastSubmit = NoSubmit
    /\ lastEvent = NoEvent

Next ==
    \/ addNewTech
    \/ \E position \in Positions : remove(position)
    \/ \E i \in 1..MaxAppends, title \in SessionTitles : EditTitle(i, title)
    \/ \E i \in 1..MaxAppends, knowledge \in SessionKnowledges : EditKnowledge(i, knowledge)
    \/ Submit

Spec == Init /\ [][Next]_vars

(***************************************************************************)
(* One validation pass over every raw record of RawRecords: the form holds *)
(* the record and is submitted.                                            *)
(***************************************************************************)
InitValidate ==
    /\ formValues \in RawRecords
    /\ fields = RowsOf(formValues.techs)
    /\ idCount = Len(formValues.techs)
    /\ errors = <<>>
    /\ output = <<>>
    /\ isSubmitting = FALSE
    /\ lastSubmit = NoSubmit
    /\ lastEvent = NoEvent

SpecValidate == InitValidate /\ [][Submit]_vars

(***************************************************************************)
(* Properties.                                                             *)
(***************************************************************************)
HasIssue(issues, path, message) ==
    \E i \in 1..Len(issues) : issues[i].path = path /\ issues[i].message = message

HasIssueAt(issues, path) == \E i \in 1..Len(issues) : issues[i].path = path

IsWhitespaceOnly(s) == s # <<>> /\ \A i \in 1..Len(s) : s[i] = " "

\* a validation pass was made over the record the form holds
Validated == lastSubmit.outcome # "none"

Mismatch == HasIssue(lastSubmit.issues, <<"confirmPassword">>, MsgMismatch)

\* C1: a name of only white space fails with Required on [name], and
\* capitalize is not executed on it.
C1_WhitespaceNameIsRequired ==
    (Validated /\ IsWhitespaceOnly(formValues.name)) =>
        /\ lastSubmit.outcome = "invalid"
        /\ HasIssue(lastSubmit.issues, <<"name">>, MsgNameRequired)
        /\ ~lastSubmit.capitalizeRan

\* C2: a validation pass over a well-typed raw record never raises: it ends
\* with a normalized record or with field errors.
C2_ValidateNeverRaises ==
    Validated => lastSubmit.outcome \in {"valid", "invalid"}

C4_TooFewAlongsideEntryErrors ==
    (Validated /\ Len(formValues.techs) < 2) =>
        /\ lastSubmit.outcome = "invalid"
        /\ HasIssue(lastSubmit.issues, <<"techs">>, MsgTechsTooFew)
        /\ \A i \in 1..Len(formValues.techs) :
              /\ formValues.techs[i].title = <<>> =>
                    HasIssue(lastSubmit.issues, <<"techs", i - 1, "title">>, MsgTitleRequired)
              /\ LET n == coerceNumber(formValues.techs[i].knowledge)
                 IN  (n.nan \/ n.neg \/ n.int < 1 \/ n.int > 100
                        \/ (n.int = 100 /\ n.frac # <<>>)) =>
                     HasIssueAt(lastSubmit.issues, <<"techs", i - 1, "knowledge">>)

\* C5: the outcome of a pass does not depend on the letter case of the
\* email: it is the outcome for the lower-cased email; an address that is
\* well formed and ends with the suffix once lower-cased has no email error
\* and is normalized to its lower-case form.
C5_EmailCaseDoesNotMatter ==
    Validated =>
        /\ lastSubmit =
              submitted(validate([formValues EXCEPT !.email = toLowerCase(@)]))
        /\ (/\ lastSubmit.outcome # "threw"
            /\ isEmail(formValues.email)
            /\ endsWith(toLowerCase(formValues.email), gmailSuffix))
              => ~HasIssueAt(lastSubmit.issues, <<"email">>)
        /\ lastSubmit.outcome = "valid"
              => lastSubmit.data[1].email = toLowerCase(formValues.email)

C5_Witness ==
    /\ lastSubmit.outcome = "valid"
    /\ formValues.email # toLowerCase(formValues.email)
    /\ lastSubmit.data[1].email = <<"u">> \o gmailSuffix

\* what C6 asks of a normalized record, but for the knowledge values
NormalizedButKnowledge(d) ==
    /\ ~d.avatar.null /\ d.avatar.size <= 10 * 1024 * 1024
    /\ d.name # <<>>
    /\ \A i \in 1..Len(d.email) : d.email[i] \notin UpperSet
    /\ endsWith(d.email, gmailSuffix)
    /\ Len(d.password) >= 8 /\ Len(d.confirmPassword) >= 8
    /\ d.password = d.confirmPassword
    /\ Len(d.techs) >= 2
    /\ \A i \in 1..Len(d.techs) : d.techs[i].title # <<>>

KnowledgeInRange(n) ==
    /\ ~n.nan /\ ~n.neg /\ n.int >= 1
    /\ (n.int < 100 \/ (n.int = 100 /\ n.frac = <<>>))

\* a normalized record exists only with an empty error set, and createUser
\* has put it into output
ProducedOnlyWithoutErrors ==
    (lastSubmit.data # <<>> \/ output # <<>>) =>
        /\ lastSubmit.outcome = "valid"
        /\ lastSubmit.issues = <<>> /\ errors = <<>>
        /\ output = stringify(lastSubmit.data[1])

\* C6, as stated: a normalized record is produced only when there is no
\* error, and it satisfies every constraint, each knowledge being an integer
\* in [1,100].
C6_NormalizedKnowledgeIsInteger ==
    /\ ProducedOnlyWithoutErrors
    /\ lastSubmit.data # <<>> =>
          /\ NormalizedButKnowledge(lastSubmit.data[1])
          /\ \A i \in 1..Len(lastSubmit.data[1].techs) :
                /\ KnowledgeInRange(lastSubmit.data[1].techs[i].knowledge)
                /\ lastSubmit.data[1].techs[i].knowledge.frac = <<>>

\* C6, amended: the same, each knowledge being a number in [1,100], not
\* necessarily an integer.
C6_NormalizedSatisfiesConstraints ==
    /\ ProducedOnlyWithoutErrors
    /\ lastSubmit.data # <<>> =>
          /\ NormalizedButKnowledge(lastSubmit.data[1])
          /\ \A i \in 1..Len(lastSubmit.data[1].techs) :
                KnowledgeInRange(lastSubmit.data[1].techs[i].knowledge)

C6_Witness ==
    /\ lastSubmit.outcome = "valid"
    /\ output # <<>>
    /\ lastSubmit.data[1].techs[1].knowledge.frac # <<>>
    /\ lastSubmit.data[1].techs[2].knowledge.frac = <<>>

\* the step removes exactly the entry at position p (from 0) of the rows and
\* of the values; the other entries keep their order, values and ids
RemovedExactly(p) ==
    /\ Len(fields') = Len(fields) - 1
    /\ Len(formValues'.techs) = Len(formValues.techs) - 1
    /\ \A i \in 1..Len(fields') :
          /\ fields'[i] = fields[IF i <= p THEN i ELSE i + 1]
          /\ formValues'.techs[i] = formValues.techs[IF i <= p THEN i ELSE i + 1]

CollectionUnchanged == fields' = fields /\ formValues' = formValues

C8_RowsMatchValidatedTechs ==
    /\ Len(fields) = Len(formValues.techs)
    /\ \A i \in 1..Len(fields) :
          /\ fields[i].title = formValues.techs[i].title
          /\ fields[i].knowledge = formValues.techs[i].knowledge
          /\ DOMAIN formValues.techs[i] = {"title", "knowledge"}
    /\ \A i, j \in 1..Len(fields) : fields[i].id = fields[j].id => i = j
    /\ lastSubmit.data # <<>> =>
          \A i \in 1..Len(lastSubmit.data[1].techs) :
              DOMAIN lastSubmit.data[1].techs[i] = {"title", "knowledge"}

\* the second of two rows, edited, is the first after the first was removed,
\* and was validated there
C8_Witness ==
    /\ idCount = 2
    /\ Len(fields) = 1
    /\ fields[1].id = 2
    /\ fields[1].title # <<>>
    /\ lastEvent.op = "submit"
    /\ HasIssue(lastSubmit.issues, <<"techs">>, MsgTechsTooFew)
    /\ ~HasIssueAt(lastSubmit.issues, <<"techs", 0, "title">>)

\* C9: append puts one entry with a fresh id after the others, which it
\* leaves as they are, so that removing the last index gives the collection
\* as it was before the append; and the remove(lastIndex) that follows an
\* append removes that entry and no other.
C9_AppendThenRemoveLast ==
    [][/\ addNewTech =>
            /\ Len(fields') = Len(fields) + 1
            /\ \A i \in 1..Len(fields) : fields'[Len(fields')].id # fields[i].id
            /\ SubSeq(fields', 1, Len(fields)) = fields
            /\ SubSeq(formValues'.techs, 1, Len(fields)) = formValues.techs
            /\ removeAt(fields', Len(fields') - 1) = fields
            /\ removeAt(formValues'.techs, Len(fields') - 1) = formValues.techs
       /\ (lastEvent.op = "append" /\ remove(Len(fields) - 1)) =>
            /\ fields' = SubSeq(fields, 1, Len(fields) - 1)
            /\ formValues'.techs = SubSeq(formValues.techs, 1, Len(fields) - 1)
      ]_vars

\* an entry was appended after an edited one and removed at once
C9_Witness ==
    /\ lastEvent.op = "remove"
    /\ lastEvent.prev = "append"
    /\ lastEvent.pos = Len(fields)
    /\ idCount = Len(fields) + 1
    /\ Len(fields) = 1
    /\ fields[1].id = 1
    /\ fields[1].title # <<>>

\* C10, as stated: after a submit the current result is that of this submit
\* alone: no output after a failing one, no error after a successful one.
C10_SubmitSupersedesResult ==
    lastEvent.op = "submit" =>
        /\ lastSubmit.outcome = "invalid" => output = <<>>
        /\ lastSubmit.outcome = "valid" =>
              errors = <<>> /\ output = stringify(lastSubmit.data[1])

\* C10, amended: a submit whose pass returns a result replaces the errors by
\* those of its own raw record (none after a successful one), a successful
\* submit replaces the output by its own normalized record, a failing submit
\* leaves the output as it was, and a submit whose pass raises changes
\* neither.
C10_ErrorsSupersededOutputKept ==
    [][lastEvent'.op = "submit" =>
          /\ lastSubmit' = submitted(validate(formValues))
          /\ lastSubmit'.outcome = "valid" =>
                errors' = <<>> /\ output' = stringify(lastSubmit'.data[1])
          /\ lastSubmit'.outcome = "invalid" =>
                /\ errors' # <<>>
                /\ errors' = toFieldErrors(lastSubmit'.issues, {})
                /\ output' = output
          /\ lastSubmit'.outcome = "threw" =>
                errors' = errors /\ output' = output]_vars

\* a failing submit after a successful one: its errors beside the older output
C10_Witness ==
    /\ lastEvent.op = "submit"
    /\ lastSubmit.outcome = "invalid"
    /\ errors # <<>>
    /\ output # <<>>

====
